---- MODULE Spec2Model ----
(***************************************************************************)
(* The Packages page of solid-site (src/src/pages/Packages.tsx): a         *)
(* searchable resource directory.  The model covers the component's        *)
(* signals (keyword, toggleFilters, stickyBarActive), the plain variable   *)
(* firstLoad, the derived memos resources and byCategory, the browser      *)
(* location, the pending debounce timer and the queue of zero-delay        *)
(* timeouts, and one action per event handler or timer callback.           *)
(***************************************************************************)
EXTENDS Integers, Sequences, FiniteSets, TLC

VARIABLES
  list,            \* data.list, the resource list given by the route data
  keyword,         \* the keyword signal
  debounceTimer,   \* value held by the pending debounce timer, or None
  toggleFilters,   \* the signal that opens the mobile filter sheet
  stickyBarActive, \* the signal that gives the sticky bar its shadow
  firstLoad,       \* the flag that swallows the first observer callback
  url,             \* globalThis.location: pathname, search, hash
  timeouts,        \* categories of the pending setTimeout(..., 0) callbacks
  mounted,         \* whether onMount has run
  scrolledTo,      \* id of the element scrollIntoView was invoked on by the last step
  lastEvent,       \* the event or callback handled by the last step, with its value
  lastInput,       \* value carried by the most recent input event
  entered,         \* value carried by the most recent input or change event
  callbacks        \* number of intersection-observer callbacks so far

vars == << list, keyword, debounceTimer, toggleFilters, stickyBarActive,
           firstLoad, url, timeouts, mounted, scrolledTo, lastEvent,
           lastInput, entered, callbacks >>

None == "<none>"

(***************************************************************************)
(* Bounds of the model.                                                    *)
(***************************************************************************)
MaxListLen == 2
NumCats == 2
MaxTimeouts == 1
MaxCallbacks == 3

(***************************************************************************)
(* Data: categories, resources, keywords.                                  *)
(***************************************************************************)
\* enum ResourceCategory, in declaration order
ResourceCategory ==
  << "primitive", "router", "data", "ui", "plugin", "starters",
     "build_utility", "add_on", "testing", "educational" >>

\* the categories whose buttons, anchors and hashes the model exercises
Categories == { ResourceCategory[i] : i \in 3..(NumCats + 2) }

\* the keys the search index is built over
FuseKeys == << "author", "title", "categories", "keywords", "link", "description" >>

\* threshold: 0.3, in hundredths
Threshold == 30

NoMatch == 100

ResDocs ==
  [ title |-> "SolidJS Docs", link |-> "docs.solidjs.com", author |-> None,
    description |-> None, keywords |-> << >>,
    categories |-> << "educational" >>, type |-> "article" ]

ResKit ==
  [ title |-> "Solid UI", link |-> "github.com/solid-ui", author |-> "ann",
    description |-> None, keywords |-> << "components" >>,
    categories |-> << "ui", "data" >>, type |-> "library" ]

ResRouter ==
  [ title |-> "Router UI docs", link |-> "github.com/solid-app-router",
    author |-> "ann", description |-> "routing for solid",
    keywords |-> << >>, categories |-> << "router", "ui" >>, type |-> "package" ]

Universe == { ResDocs, ResKit, ResRouter }

Keywords == { "", "docs", "ui" }

RECURSIVE SeqsOfLen(_)
SeqsOfLen(n) ==
  IF n = 0 THEN { << >> }
  ELSE { Append(s, r) : s \in SeqsOfLen(n - 1), r \in Universe }

Distinct(s) == \A i, j \in 1..Len(s) : i # j => s[i] # s[j]

\* the lists the route data may supply: distinct resources, any order
Lists == { s \in UNION { SeqsOfLen(n) : n \in 0..MaxListLen } : Distinct(s) }

Range(s) == { s[i] : i \in 1..Len(s) }

(***************************************************************************)
(* The search index (new Fuse(data.list, {keys, threshold})).              *)
(***************************************************************************)
\* score of the best approximate occurrence of pattern in text, in
\* hundredths: errors / pattern length + location / 100, case-insensitive
BitapScore(pattern, text) ==
  CASE pattern = "docs" /\ text = "SolidJS Docs"     -> 8
    [] pattern = "docs" /\ text = "docs.solidjs.com" -> 0
    [] pattern = "docs" /\ text = "Router UI docs"   -> 10
    [] pattern = "ui"   /\ text = "ui"               -> 0
    [] pattern = "ui"   /\ text = "Solid UI"         -> 6
    [] pattern = "ui"   /\ text = "github.com/solid-ui" -> 17
    [] pattern = "ui"   /\ text = "Router UI docs"   -> 7
    [] OTHER -> NoMatch

\* the strings the index holds for one key of a resource
FieldTexts(resource, key) ==
  CASE key = "categories" -> Range(resource.categories)
    [] key = "keywords"   -> Range(resource.keywords)
    [] OTHER -> IF resource[key] = None THEN { } ELSE { resource[key] }

MinOf(S) == CHOOSE x \in S : \A y \in S : x <= y

\* best score of a key, NoMatch when no string of the key is within threshold
KeyScore(resource, key, pattern) ==
  LET scores == { BitapScore(pattern, t) : t \in FieldTexts(resource, key) }
      within == { s \in scores : s <= Threshold }
  IN IF within = { } THEN NoMatch ELSE MinOf(within)

MatchedKeys(resource, pattern) ==
  { k \in Range(FuseKeys) : KeyScore(resource, k, pattern) <= Threshold }

ItemScore(resource, pattern) ==
  MinOf({ KeyScore(resource, k, pattern) : k \in Range(FuseKeys) })

\* whether the item at index i ranks before the item at index j: lower
\* score first, equal scores in index order
RanksBefore(l, pattern, i, j) ==
  \/ ItemScore(l[i], pattern) < ItemScore(l[j], pattern)
  \/ /\ ItemScore(l[i], pattern) = ItemScore(l[j], pattern)
     /\ i < j

\* indices of the matching items
Hits(l, pattern) ==
  { i \in 1..Len(l) : MatchedKeys(l[i], pattern) # { } }

\* index of the matching item at position n of the ranking
RankedIndex(l, pattern, n) ==
  LET hits == Hits(l, pattern)
  IN CHOOSE i \in hits :
       Cardinality({ j \in hits : RanksBefore(l, pattern, j, i) }) = n - 1

\* fs.search(pattern): the matching items as results, best first
FuseSearch(l, pattern) ==
  [ n \in 1..Cardinality(Hits(l, pattern)) |->
      LET i == RankedIndex(l, pattern, n)
      IN [ item |-> l[i], refIndex |-> i - 1,
           score |-> ItemScore(l[i], pattern) ] ]

(***************************************************************************)
(* The derived memos.                                                      *)
(***************************************************************************)
\* mutation: the empty keyword is searched for like any other
ResourcesAlwaysSearch(l, kw) ==
  LET results == FuseSearch(l, kw)
  IN [ n \in 1..Len(results) |-> results[n].item ]

\* mutation: the results are returned without .map((result) => result.item)
ResourcesUnmapped(l, kw) ==
  IF kw = "" THEN l ELSE FuseSearch(l, kw)

Resources(l, kw) ==
  IF kw = "" THEN l
  ELSE LET results == FuseSearch(l, kw)
       IN [ n \in 1..Len(results) |-> results[n].item ]

\* mutation: a bucket is always started anew, never pushed to
RECURSIVE AddToBucketsOverwrite(_, _, _)
AddToBucketsOverwrite(map, resource, cats) ==
  IF cats = << >> THEN map
  ELSE LET category == Head(cats)
           next == IF category \in DOMAIN map
                   THEN [ map EXCEPT ![category] = << resource >> ]
                   ELSE map @@ (category :> << resource >>)
       IN AddToBucketsOverwrite(next, resource, Tail(cats))

\* the inner loop: append resource to the bucket of each of its categories
RECURSIVE AddToBuckets(_, _, _)
AddToBuckets(map, resource, cats) ==
  IF cats = << >> THEN map
  ELSE LET category == Head(cats)
           next == IF category \in DOMAIN map
                   THEN [ map EXCEPT ![category] = Append(@, resource) ]
                   ELSE map @@ (category :> << resource >>)
       IN AddToBuckets(next, resource, Tail(cats))

\* the outer loop over resources()
RECURSIVE GroupFrom(_, _)
GroupFrom(map, rs) ==
  IF rs = << >> THEN map
  ELSE GroupFrom(AddToBuckets(map, Head(rs), Head(rs).categories), Tail(rs))

EmptyMap == [ c \in { } |-> << >> ]

ByCategory(rs) == GroupFrom(EmptyMap, rs)

resources == Resources(list, keyword)

byCategory == ByCategory(resources)

\* the <h3 id={category}> anchors in the document
Anchors ==
  LET rs == resources
  IN IF Len(rs) # 0 THEN DOMAIN ByCategory(rs) ELSE { }

(***************************************************************************)
(* Initial state: the component body has run, nothing is mounted yet.      *)
(***************************************************************************)
Init ==
  /\ list \in Lists
  /\ \E kw \in Keywords, h \in { "" } \cup Categories :
       /\ keyword = kw
       /\ url = [ pathname |-> "/resources", search |-> kw, hash |-> h ]
  /\ debounceTimer = None
  /\ toggleFilters = FALSE
  /\ stickyBarActive = FALSE
  /\ firstLoad = TRUE
  /\ timeouts = << >>
  /\ mounted = FALSE
  /\ scrolledTo = None
  /\ lastEvent = [ type |-> "init", value |-> None ]
  /\ lastInput = None
  /\ entered = None
  /\ callbacks = 0

(***************************************************************************)
(* Helpers of the handlers.                                                *)
(***************************************************************************)
\* navigate(`${url.pathname}${url.search}#${category}`, { scroll: false })
Navigate(u, category) ==
  [ pathname |-> u.pathname, search |-> u.search, hash |-> category ]

\* document.getElementById(id)?.scrollIntoView(true): the element scrolled
\* to, None when the document has no element with that id
ScrollIntoView(id) == IF id \in Anchors THEN id ELSE None

\* mutation: a call made while a timer is pending is dropped
DebounceKeepPending(pending, str) == IF pending # None THEN pending ELSE str

\* the debounced function: a call replaces the pending timer
Debounce(pending, str) == str

\* mutation: the first callback is not skipped
StickyAfterNoSkip(first, current, isIntersecting) == ~isIntersecting

\* the observer callback's effect on stickyBarActive
StickyAfter(first, current, isIntersecting) ==
  IF first THEN current ELSE ~isIntersecting

Event(type, value) == [ type |-> type, value |-> value ]

(***************************************************************************)
(* Actions.                                                                *)
(***************************************************************************)
\* mutation: onMount without the scroll
OnMountNoScroll ==
  /\ ~mounted
  /\ mounted' = TRUE
  /\ scrolledTo' = None
  /\ lastEvent' = Event("mount", url.hash)
  /\ UNCHANGED << list, keyword, debounceTimer, toggleFilters, stickyBarActive,
                  firstLoad, url, timeouts, lastInput, entered, callbacks >>

\* onMount: url.hash holds the fragment with its leading '#' removed
OnMount ==
  /\ ~mounted
  /\ mounted' = TRUE
  /\ scrolledTo' = IF url.hash = "" THEN None ELSE ScrollIntoView(url.hash)
  /\ lastEvent' = Event("mount", url.hash)
  /\ UNCHANGED << list, keyword, debounceTimer, toggleFilters, stickyBarActive,
                  firstLoad, url, timeouts, lastInput, entered, callbacks >>

\* onInput of either search box: debouncedKeyword(value)
OnInput(value) ==
  /\ mounted
  /\ debounceTimer' = Debounce(debounceTimer, value)
  /\ lastInput' = value
  /\ entered' = value
  /\ scrolledTo' = None
  /\ lastEvent' = Event("input", value)
  /\ UNCHANGED << list, keyword, toggleFilters, stickyBarActive, firstLoad,
                  url, timeouts, mounted, callbacks >>

\* onChange of either search box: setKeyword(value)
OnChange(value) ==
  /\ mounted
  /\ keyword' = value
  /\ entered' = value
  /\ scrolledTo' = None
  /\ lastEvent' = Event("change", value)
  /\ UNCHANGED << list, debounceTimer, toggleFilters, stickyBarActive,
                  firstLoad, url, timeouts, mounted, lastInput, callbacks >>

\* the debounce timer expires: (str) => setKeyword(str)
DebounceExpire ==
  /\ debounceTimer # None
  /\ keyword' = debounceTimer
  /\ debounceTimer' = None
  /\ scrolledTo' = None
  /\ lastEvent' = Event("expire", debounceTimer)
  /\ UNCHANGED << list, toggleFilters, stickyBarActive, firstLoad, url,
                  timeouts, mounted, lastInput, entered, callbacks >>

\* scrollToCategory, as run by a sidebar button's onClick
ScrollToCategory(category) ==
  /\ mounted
  /\ url' = Navigate(url, category)
  /\ scrolledTo' = ScrollIntoView(category)
  /\ lastEvent' = Event("click", category)
  /\ UNCHANGED << list, keyword, debounceTimer, toggleFilters, stickyBarActive,
                  firstLoad, timeouts, mounted, lastInput, entered, callbacks >>

\* mutation: the sheet is closed and scrollToCategory called at once,
\* without setTimeout
CloseAndScrollNow(category) ==
  /\ mounted
  /\ toggleFilters
  /\ Len(timeouts) < MaxTimeouts
  /\ toggleFilters' = FALSE
  /\ url' = Navigate(url, category)
  /\ scrolledTo' = ScrollIntoView(category)
  /\ lastEvent' = Event("select", category)
  /\ UNCHANGED << list, keyword, debounceTimer, stickyBarActive, firstLoad,
                  timeouts, mounted, lastInput, entered, callbacks >>

\* closeAndScrollToCategory, as run by a button of the open filter sheet
CloseAndScrollToCategory(category) ==
  /\ mounted
  /\ toggleFilters
  /\ Len(timeouts) < MaxTimeouts
  /\ toggleFilters' = FALSE
  /\ timeouts' = Append(timeouts, category)
  /\ scrolledTo' = None
  /\ lastEvent' = Event("select", category)
  /\ UNCHANGED << list, keyword, debounceTimer, stickyBarActive, firstLoad,
                  url, mounted, lastInput, entered, callbacks >>

\* the oldest zero-delay timeout fires: () => scrollToCategory(category)
TimeoutFire ==
  /\ timeouts # << >>
  /\ url' = Navigate(url, Head(timeouts))
  /\ scrolledTo' = ScrollIntoView(Head(timeouts))
  /\ timeouts' = Tail(timeouts)
  /\ lastEvent' = Event("timeout", Head(timeouts))
  /\ UNCHANGED << list, keyword, debounceTimer, toggleFilters, stickyBarActive,
                  firstLoad, mounted, lastInput, entered, callbacks >>

\* Dismiss opens or closes the sheet through setOpen (menu button, outside
\* click, escape)
SetOpen(open) ==
  /\ mounted
  /\ toggleFilters # open
  /\ toggleFilters' = open
  /\ scrolledTo' = None
  /\ lastEvent' = Event("setOpen", open)
  /\ UNCHANGED << list, keyword, debounceTimer, stickyBarActive, firstLoad,
                  url, timeouts, mounted, lastInput, entered, callbacks >>

\* the intersection-observer callback with its first entry
OnIntersection(isIntersecting) ==
  /\ mounted
  /\ callbacks < MaxCallbacks
  /\ callbacks' = callbacks + 1
  /\ firstLoad' = FALSE
  /\ stickyBarActive' = StickyAfter(firstLoad, stickyBarActive, isIntersecting)
  /\ scrolledTo' = None
  /\ lastEvent' = Event("intersection", isIntersecting)
  /\ UNCHANGED << list, keyword, debounceTimer, toggleFilters, url, timeouts,
                  mounted, lastInput, entered >>

Next ==
  \/ OnMount
  \/ \E value \in Keywords : OnInput(value)
  \/ \E value \in Keywords : OnChange(value)
  \/ DebounceExpire
  \/ \E category \in Categories : ScrollToCategory(category)
  \/ \E category \in Categories : CloseAndScrollToCategory(category)
  \/ TimeoutFire
  \/ \E open \in BOOLEAN : SetOpen(open)
  \/ \E isIntersecting \in BOOLEAN : OnIntersection(isIntersecting)

Spec == Init /\ [][Next]_vars

(***************************************************************************)
(* Spec restricted to the handlers of one concern.  The handlers left out  *)
(* of a restriction write none of the variables its properties read, other *)
(* than the keyword, which OnChange can set to any value.                  *)
(***************************************************************************)
\* the search box alone: typing, committing, the debounce timer
KeywordNext ==
  \/ OnMount
  \/ \E value \in Keywords : OnInput(value)
  \/ \E value \in Keywords : OnChange(value)
  \/ DebounceExpire

KeywordSpec == Init /\ [][KeywordNext]_vars

\* category navigation, with the keyword changed by committed edits
NavNext ==
  \/ OnMount
  \/ \E value \in Keywords : OnChange(value)
  \/ \E category \in Categories : ScrollToCategory(category)
  \/ \E category \in Categories : CloseAndScrollToCategory(category)
  \/ TimeoutFire
  \/ \E open \in BOOLEAN : SetOpen(open)

NavSpec == Init /\ [][NavNext]_vars

\* the step that takes the oldest timeout off the queue
TimeoutDue == timeouts # << >> /\ timeouts' = Tail(timeouts)

\* a pending zero-delay timeout does fire: TimeoutFire is the one action
\* that takes a timeout off the queue
NavFairSpec == NavSpec /\ WF_timeouts(TimeoutDue)

\* the sticky-bar observer alone
ObserverNext ==
  \/ OnMount
  \/ \E isIntersecting \in BOOLEAN : OnIntersection(isIntersecting)

ObserverSpec == Init /\ [][ObserverNext]_vars

(***************************************************************************)
(* Properties.                                                             *)
(***************************************************************************)
Count(seq, x) == Cardinality({ i \in 1..Len(seq) : seq[i] = x })

BucketsOf(map, resource) ==
  { c \in DOMAIN map : Count(map[c], resource) > 0 }

\* C1: with the empty keyword, resources is data.list itself: same length,
\* the same element at every position.
C1_EmptyKeywordFullList ==
  LET rs == resources
  IN keyword = "" =>
       /\ Len(rs) = Len(list)
       /\ \A i \in 1..Len(list) : rs[i] = list[i]

C1_Witness ==
  /\ lastEvent.type = "expire"
  /\ keyword = ""
  /\ Len(list) >= 2
  /\ Len(resources) = Len(list)

\* C2: a resource of the filtered list that declares N categories is in
\* exactly N buckets of byCategory, once in each bucket of a category it
\* declares, and in no other bucket; no empty bucket is kept.
C2_BucketPlacement ==
  LET rs == resources
      map == byCategory
  IN /\ \A r \in Range(rs) :
          /\ BucketsOf(map, r) = Range(r.categories)
          /\ Cardinality(BucketsOf(map, r)) = Cardinality(Range(r.categories))
          /\ \A c \in Range(r.categories) : Count(map[c], r) = 1
     /\ \A c \in DOMAIN map :
          /\ map[c] # << >>
          /\ Range(map[c]) \subseteq Range(rs)

C2_Witness ==
  LET rs == resources
      map == byCategory
  IN /\ mounted
     /\ \E c \in DOMAIN map : Len(map[c]) >= 2
     /\ \E r \in Range(rs) : Cardinality(BucketsOf(map, r)) >= 2

\* C3: a click on the button of a category that has no bucket in byCategory,
\* in the sidebar or (through its timeout) in the filter sheet, leaves the
\* location unchanged.
C3_EmptyCategoryKeepsHash ==
  [][ ( /\ lastEvent'.type \in { "click", "timeout" }
        /\ lastEvent'.value \notin DOMAIN byCategory )
      => url' = url ]_vars

\* C4: with a non-empty keyword, every element of resources is an element of
\* data.list that the index matches on at least one of its keys, and
\* resources is the index's result sequence, in its order.
C4_SearchResults ==
  LET rs == resources
      results == FuseSearch(list, keyword)
  IN keyword # "" =>
       /\ \A i \in 1..Len(rs) :
            /\ rs[i] \in Range(list)
            /\ MatchedKeys(rs[i], keyword) # { }
            /\ rs[i] = results[i].item
       /\ Len(rs) = Len(results)

C4_Witness ==
  /\ lastEvent.type = "expire"
  /\ keyword # ""
  /\ LET rs == resources IN Len(rs) >= 2 /\ rs # list

\* C5 as stated: mounting with a non-empty hash scrolls to the element with
\* that id.
C5_MountScrollsToHash ==
  (lastEvent.type = "mount" /\ url.hash # "") => scrolledTo = url.hash

\* C5, amended: mounting with a non-empty hash scrolls to the element with
\* that id when the category has a bucket in byCategory, so that its anchor
\* is in the document; otherwise mounting scrolls nowhere.
C5_MountScrollsToRenderedAnchor ==
  lastEvent.type = "mount" =>
    scrolledTo = IF url.hash # "" /\ url.hash \in DOMAIN byCategory
                 THEN url.hash ELSE None

C5_Witness ==
  /\ lastEvent.type = "mount"
  /\ url.hash # ""
  /\ scrolledTo = url.hash

\* C6: a sidebar click on a category sets the hash to its id and scrolls to
\* the anchor with that id; pathname, search, the keyword and the filtered
\* list stay as they were.
C6_ClickSetsHashAndScrolls ==
  [][ lastEvent'.type = "click" =>
        /\ url'.hash = lastEvent'.value
        /\ scrolledTo' = lastEvent'.value
        /\ url'.pathname = url.pathname
        /\ url'.search = url.search
        /\ keyword' = keyword
        /\ resources' = resources ]_vars

\* C7: an input event leaves the keyword alone and makes its value the one
\* pending update, replacing any earlier one; the expiry of the timer sets
\* the keyword to the value of the last input event and leaves no timer.
C7_DebouncedInput ==
  [][ /\ lastEvent'.type = "input" =>
           /\ keyword' = keyword
           /\ debounceTimer' = lastEvent'.value
      /\ lastEvent'.type = "expire" =>
           /\ debounceTimer # None
           /\ keyword' = lastInput
           /\ debounceTimer' = None ]_vars

C7_Witness ==
  /\ lastEvent.type = "expire"
  /\ keyword = lastInput
  /\ keyword # url.search
  /\ debounceTimer = None

\* C8 as stated: selecting in the filter sheet closes the sheet and touches
\* neither the hash nor the scroll position; the timeout then sets the hash
\* and scrolls to the category.
C8_CloseThenScroll ==
  [][ /\ lastEvent'.type = "select" =>
           /\ toggleFilters' = FALSE
           /\ url' = url
           /\ scrolledTo' = None
      /\ lastEvent'.type = "timeout" =>
           /\ url'.hash = lastEvent'.value
           /\ scrolledTo' = lastEvent'.value ]_vars

\* C8, amended: selecting in the filter sheet closes the sheet, touches
\* neither the hash nor the scroll position and queues a timeout; the
\* timeout fires eventually, sets the hash, and scrolls to the category
\* when the category has a bucket in byCategory at that time, nowhere
\* otherwise.
C8_CloseThenDeferredNavigate ==
  /\ [][ /\ lastEvent'.type = "select" =>
              /\ toggleFilters' = FALSE
              /\ url' = url
              /\ scrolledTo' = None
              /\ timeouts' = Append(timeouts, lastEvent'.value)
         /\ lastEvent'.type = "timeout" =>
              /\ timeouts # << >>
              /\ lastEvent'.value = Head(timeouts)
              /\ url'.hash = lastEvent'.value
              /\ scrolledTo' = IF lastEvent'.value \in DOMAIN byCategory
                               THEN lastEvent'.value ELSE None ]_vars
  /\ \A c \in Categories :
       (timeouts # << >> /\ Head(timeouts) = c)
         ~> (lastEvent = Event("timeout", c) /\ url.hash = c)

C8_Witness ==
  /\ lastEvent.type = "timeout"
  /\ scrolledTo = lastEvent.value
  /\ url.hash = lastEvent.value
  /\ ~toggleFilters

\* C9: the first observer callback leaves stickyBarActive false and clears
\* firstLoad; from the second callback on, stickyBarActive is the negation
\* of the last entry's isIntersecting.
C9_FirstCallbackIgnored ==
  /\ callbacks = 0 => firstLoad /\ ~stickyBarActive
  /\ callbacks = 1 => ~firstLoad /\ ~stickyBarActive
  /\ callbacks >= 2 =>
       /\ ~firstLoad
       /\ lastEvent.type = "intersection"
       /\ stickyBarActive = ~lastEvent.value

C9_Witness ==
  /\ callbacks >= 2
  /\ lastEvent.type = "intersection"
  /\ stickyBarActive

\* C10: once no debounce timer is pending, the keyword is the value of the
\* most recent input or change event.
C10_KeywordConverges ==
  (debounceTimer = None /\ entered # None) => keyword = entered

====
